---- MODULE Spec2Model ----
(***************************************************************************)
(* The relay core of the browser-agent broker: the connection registry     *)
(* (browser_clients), the result store (command_results), the dispatcher   *)
(* (send_to_browser), the polling waiters of the API routes and the        *)
(* per-connection message handler (handle_browser_client).                 *)
(*                                                                         *)
(* Every task runs on one asyncio loop: a step of the model is the code a  *)
(* task runs between two suspension points (an await that yields).         *)
(***************************************************************************)
EXTENDS Naturals, Sequences, FiniteSets, TLC

(* ------------------------------ bounds --------------------------------- *)
\* websocket objects that may ever connect
NumSockets == 3
\* websocket objects that connect in the dispatch and capture scenarios
NumAgents == 2
\* API calls that may ever be made
NumCalls == 2
\* last value of the wall clock (seconds) the model lets datetime.now() reach
MaxClock == 1
\* number of uuid4 values the model lets the broker draw
MaxUuid == 1
\* calls of update_screenshot_settings that may ever be made
MaxRequests == 2
\* cycles the model lets one periodic loop run
MaxCycles == 2
\* frames the model lets the handlers read in the message scenario
MaxFrames == 3
\* screenshots the model lets one connection save in the history scenario
MaxSaves == 52

(* ------------------------- program constants --------------------------- *)
\* range(30) of navigate and launch_activity
NavPolls == 30
\* range(50) of screenshot and get_content
ScreenshotPolls == 50
\* SCREENSHOT_INTERVAL = 60
DefaultInterval == 60
\* "if settings.interval < 5"
MinInterval == 5
\* "if len(screenshot_history[client_id]) > 50"
HistoryCap == 50

Sockets == 1..NumSockets
Agents == 1..NumAgents
Calls == 1..NumCalls

\* target_client = None
NoTarget == "<None>"
\* the values the model draws target_client from
Targets == {NoTarget, "browser_1", "roomA", "nobody"}
\* the names a hello frame may carry
HelloNames == {"roomA"}
\* a hello frame without the key "name"
NoName == "<absent>"
\* the four dispatch-and-wait endpoints of the API
Endpoints == {"navigate", "screenshot", "content", "launch"}
\* the activity values a userActivity frame may carry
Activities == {"click", "scroll"}
\* ids of result frames that answer no command the agent was sent
StrayIds == {[prefix |-> "nav_", stamp |-> 0], [prefix |-> "stray_", stamp |-> 0]}
\* the id a result frame of the message scenarios carries
MsgId == [prefix |-> "stray_", stamp |-> 0]
\* an "id" that is a JSON array or object: not hashable
UnhashableId == [prefix |-> "<list>", stamp |-> 0]
\* the key "id" absent
AbsentId == [prefix |-> "", stamp |-> 0]

\* An inbound frame.  parse: "object" when json.loads gives a dict,
\* "nonobject" when it gives a list, a string, a number or null, "malformed"
\* when it raises JSONDecodeError, "undecodable" when it raises another
\* error (UnicodeDecodeError for a binary frame, RecursionError).  type, name
\* and id are data["type"], data["name"] and data["id"]; body tells which of
\* "result" and "error" the frame has: "result" (no screenshot in it),
\* "screenshot" (a result with a screenshot), "badshot" (a result whose
\* screenshot is not valid base64), "nonobject" (a result that is null or a
\* number), "error", or "none"; activity is data["activity"], data tells
\* whether data["data"] is an object.
Msg(parse, type, name, id, body, activity, data) ==
    [parse |-> parse, type |-> type, name |-> name, id |-> id, body |-> body,
     activity |-> activity, data |-> data]

\* the frames the message scenarios draw from
Messages ==
    { Msg("object", "hello", "roomA", AbsentId, "none", "", "object"),
      Msg("object", "hello", NoName, AbsentId, "none", "", "object"),
      Msg("object", "hello", "roomA", MsgId, "screenshot", "click", "object"),
      Msg("object", "none", NoName, MsgId, "result", "", "object"),
      Msg("object", "none", NoName, MsgId, "screenshot", "", "object"),
      Msg("object", "none", NoName, MsgId, "badshot", "", "object"),
      Msg("object", "none", NoName, MsgId, "nonobject", "", "object"),
      Msg("object", "none", NoName, MsgId, "error", "", "object"),
      Msg("object", "none", NoName, UnhashableId, "result", "", "object"),
      Msg("object", "userActivity", NoName, MsgId, "result", "click", "object"),
      Msg("object", "userActivity", NoName, AbsentId, "none", "click", "object"),
      Msg("object", "userActivity", NoName, AbsentId, "none", "click", "nonobject"),
      Msg("object", "userActivity", NoName, AbsentId, "none", "scroll", "object"),
      Msg("object", "ping", NoName, AbsentId, "none", "", "object"),
      Msg("object", "none", NoName, MsgId, "none", "", "object"),
      Msg("nonobject", "none", NoName, AbsentId, "none", "", "object"),
      Msg("malformed", "none", NoName, AbsentId, "none", "", "object"),
      Msg("undecodable", "none", NoName, AbsentId, "none", "", "object") }

\* the intervals a ScreenshotSettings body may carry
SettingsIntervals == {4, 5, 10}

\* f"browser_{n}"
ClientId(n) ==
    CASE n = 1 -> "browser_1"
      [] n = 2 -> "browser_2"
      [] n = 3 -> "browser_3"
      [] n = 4 -> "browser_4"
      [] OTHER -> "browser_n"

\* the prefix of the command id each endpoint builds
Prefix(e) ==
    CASE e = "navigate" -> "nav_"
      [] e = "screenshot" -> "ss_"
      [] e = "content" -> "content_"
      [] e = "launch" -> "launch_"

\* every wait loop written with range(30)
PollCountAlwaysNav(e) == NavPolls

\* the number of polls of the endpoint's wait loop
PollCount(e) ==
    IF e \in {"navigate", "launch"} THEN NavPolls ELSE ScreenshotPolls

\* command_id = f"{prefix}{datetime.now().strftime('%Y%m%d%H%M%S')}":
\* the wall clock with a resolution of one second
ApiCommandId(e, clock) == [prefix |-> Prefix(e), stamp |-> clock]

\* command_id = f"screenshot_{uuid.uuid4()}"
ActivityCommandId(u) == [prefix |-> "screenshot_", stamp |-> u]

\* who built a command: an API call or an activity-triggered capture
ByCall(c) == [kind |-> "api", n |-> c]
ByActivity(u) == [kind |-> "activity", n |-> u]

\* command_id = f"periodic_screenshot_{uuid.uuid4()}"
PeriodicCommandId(u) == [prefix |-> "periodic_screenshot_", stamp |-> u]
ByPeriodic(u) == [kind |-> "periodic", n |-> u]

VARIABLES
    browser_clients,   \* the registry: the dict's entries in insertion order
    conn,              \* each websocket: "free", "open", "lost" or "closed"
    command_results,   \* the result store: command id -> the frame stored
    call,              \* each API call: its position and locals
    now,               \* datetime.now(), in seconds
    uuid,              \* the number of uuid4 values drawn so far
    sent,              \* every command frame written to a websocket so far
    answered,          \* the frames of sent the agent has answered
    websocket_server,  \* FALSE for None: start_websocket_server has not run
    periodic_screenshot_task,  \* 0 for None, else the number of a task
    SCREENSHOT_INTERVAL,       \* the stored interval, in seconds
    tasks,             \* the periodic_screenshot_loop tasks created so far
    reply,             \* the last call of update_screenshot_settings and its answer
    screenshot_history,  \* client id -> the records of the screenshots saved
    nsaved,            \* each websocket: the screenshots saved from it so far
    handled            \* the frames handle_browser_client has read, and the last

\* the periodic capture scheduler and its settings route
sched == <<websocket_server, periodic_screenshot_task, SCREENSHOT_INTERVAL, tasks, reply>>

\* the screenshot history and the frames read
hist == <<screenshot_history, nsaved, handled>>

vars == <<browser_clients, conn, command_results, call, now, uuid, sent, answered,
          sched, hist>>

(* ------------------------------ helpers -------------------------------- *)
NoId == [prefix |-> "", stamp |-> 0]
NoBy == [kind |-> "none", n |-> 0]
NoResult == [id |-> NoId, from |-> 0, by |-> NoBy, payload |-> "none"]

\* a command frame as written to websocket w
Frame(w, id, by) == [to |-> w, id |-> id, by |-> by]

\* the websockets of the registry, in the dict's iteration order
RegistrySockets(reg) == {reg[i].ws : i \in 1..Len(reg)}

\* the check for an empty registry left out
RegistryEmptyNeverTrue(reg) == FALSE

\* "if not browser_clients"
RegistryEmpty(reg) == Len(reg) = 0

\* the loop variable used after the loop: without a match the last entry
FindTargetLoopVariable(reg, t) ==
    LET hits == {i \in 1..Len(reg) : t = reg[i].name \/ t = reg[i].id}
    IN  IF Len(reg) = 0 THEN 0
        ELSE IF hits = {} THEN reg[Len(reg)].ws
        ELSE reg[CHOOSE i \in hits : \A j \in hits : i <= j].ws

\* the entry of the registry a targeted dispatch resolves to: the loop
\* "for websocket, info in browser_clients.items()" breaks at the first entry
\* whose name or id equals the target; 0 stands for target_websocket = None
FindTarget(reg, t) ==
    LET hits == {i \in 1..Len(reg) : t = reg[i].name \/ t = reg[i].id}
    IN  IF hits = {} THEN 0
        ELSE reg[CHOOSE i \in hits : \A j \in hits : i <= j].ws

\* [client for client in browser_clients.keys()]: the recipients of a broadcast
BroadcastTargets(reg) == RegistrySockets(reg)

\* the entry left in the registry
RemoveSocketKeeps(reg, w) == reg

\* "del browser_clients[websocket]": the other entries keep their order
RemoveSocket(reg, w) == SelectSeq(reg, LAMBDA e : e.ws # w)

\* browser_clients[websocket]["name"] = client_name
SetName(reg, w, name) ==
    [i \in 1..Len(reg) |->
        IF reg[i].ws = w THEN [reg[i] EXCEPT !.name = name] ELSE reg[i]]

\* the registry entry of websocket w: browser_clients[websocket]
EntryOf(reg, w) == reg[CHOOSE i \in 1..Len(reg) : reg[i].ws = w]

\* the first records kept
TrimHistoryKeepsOldest(h) ==
    IF Len(h) > HistoryCap THEN SubSeq(h, 1, HistoryCap) ELSE h

\* "if len(h) > 50: h = h[-50:]"
TrimHistory(h) ==
    IF Len(h) > HistoryCap THEN SubSeq(h, Len(h) - HistoryCap + 1, Len(h)) ELSE h

\* is_periodic = "periodic_screenshot_" in command_id
ScreenshotType(id) ==
    IF id.prefix = "periodic_screenshot_" THEN "periodic" ELSE "event-triggered"

\* screenshot_info as save_screenshot builds it for the k-th screenshot saved
\* from websocket w; timestamp is datetime.now() to the second
ScreenshotInfo(w, cid, name, id, k) ==
    [client_id |-> cid, client_name |-> name, type |-> ScreenshotType(id),
     timestamp |-> now, ws |-> w, k |-> k]

\* save_screenshot: the record is appended to screenshot_history[client_id]
\* and the list is cut to its last 50 records
SaveScreenshot(history, cid, info) ==
    [history EXCEPT ![cid] = TrimHistory(Append(@, info))]

\* the history after the handler of w has stored a result frame: a result
\* that carries a screenshot is saved
HistoryAfter(w, id, payload) ==
    IF payload = "screenshot"
    THEN SaveScreenshot(screenshot_history, EntryOf(browser_clients, w).id,
             ScreenshotInfo(w, EntryOf(browser_clients, w).id,
                            EntryOf(browser_clients, w).name, id, nsaved[w] + 1))
    ELSE screenshot_history

\* the count of screenshots saved from w after such a frame
SavedAfter(w, payload) ==
    IF payload = "screenshot" THEN [nsaved EXCEPT ![w] = @ + 1] ELSE nsaved

\* command_results = {}
EmptyStore == [k \in {} |-> NoResult]

\* command_results[command_id] = data written as a replacement of the store
PutKeepsOnlyNewest(store, id, data) == [k \in {id} |-> data]

\* command_results[command_id] = data
Put(store, id, data) ==
    [k \in DOMAIN store \cup {id} |-> IF k = id THEN data ELSE store[k]]

\* command_results[command_id] read without removing the entry
TakeKeepsEntry(store, id) == store

\* command_results.pop(command_id): the store left behind
Take(store, id) == [k \in DOMAIN store \ {id} |-> store[k]]

\* a send on a websocket whose connection is closed raises ConnectionClosed
SendRaises(w) == conn[w] \in {"lost", "closed"}

\* An API call before it is made.  endpoint, target, id, unsent, failed, tws
\* and polls are the locals of the route and of send_to_browser; ret is what
\* send_to_browser returned, outcome what the route answered, got the frame
\* it returned; recips records the registry's websockets at the dispatch.
IdleCall ==
    [pc |-> "idle", endpoint |-> "none", target |-> NoTarget, id |-> NoId,
     recips |-> {}, unsent |-> {}, failed |-> FALSE, tws |-> 0, polls |-> 0,
     ret |-> "none", outcome |-> "none", got |-> NoResult]

\* update_screenshot_settings before it is called.  n counts the calls made;
\* interval and enabled are the body of the last call, code and message its
\* answer.
NoReply == [n |-> 0, interval |-> 0, enabled |-> FALSE, code |-> "none", message |-> "none"]

\* no frame read yet.  n counts the frames read, ws and msg are the last one
NoFrame == [n |-> 0, ws |-> 0, msg |-> "none"]

\* A periodic_screenshot_loop task as asyncio.create_task made it.  interval
\* is its argument; pc is "sleep" in asyncio.sleep, "sending" in
\* "await websocket.send", "cancelled" or "crashed" once it has ended; len0
\* and seen are the state of the iterator of browser_clients.items(): the
\* size of the dict when the iteration began and the websockets visited;
\* start records the websockets registered when the cycle began; cycles,
\* nsent and nfailed count the cycles begun, the frames written and the
\* sends that raised.
NewTask(interval) ==
    [interval |-> interval, pc |-> "sleep", len0 |-> 0, seen |-> {}, start |-> {},
     cycles |-> 0, nsent |-> 0, nfailed |-> 0]

\* the loop's task has not ended and no cancellation is pending on it
Active(t) == t.pc \in {"sleep", "sending"}

(* ------------------------------- Init ---------------------------------- *)
Init ==
    /\ browser_clients = <<>>
    /\ conn = [w \in Sockets |-> "free"]
    /\ command_results = EmptyStore
    /\ call = [c \in Calls |-> IdleCall]
    /\ now = 0
    /\ uuid = 0
    /\ sent = {}
    /\ answered = {}
    /\ websocket_server = FALSE
    /\ periodic_screenshot_task = 0
    /\ SCREENSHOT_INTERVAL = DefaultInterval
    /\ tasks = <<>>
    /\ reply = NoReply
    /\ screenshot_history = [k \in {} |-> <<>>]
    /\ nsaved = [w \in Sockets |-> 0]
    /\ handled = NoFrame

(* ----------------------- connection lifecycle -------------------------- *)
\* handle_browser_client up to its first await: the connection is registered
\* under browser_{len + 1} with the name "Unknown", and the screenshot
\* history of that client id is set to the empty list
Connect(w) ==
    /\ conn[w] = "free"
    /\ browser_clients' = Append(browser_clients,
           [ws |-> w, id |-> ClientId(Len(browser_clients) + 1), name |-> "Unknown"])
    /\ conn' = [conn EXCEPT ![w] = "open"]
    /\ screenshot_history' = Put(screenshot_history,
                                 ClientId(Len(browser_clients) + 1), <<>>)
    /\ UNCHANGED <<command_results, call, now, uuid, sent, answered, sched,
                   nsaved, handled>>

\* the agent's connection closes; its handler has not run yet
Disconnect(w) ==
    /\ conn[w] = "open"
    /\ conn' = [conn EXCEPT ![w] = "lost"]
    /\ UNCHANGED <<browser_clients, command_results, call, now, uuid, sent, answered, sched, hist>>

\* the handler's message loop ends or raises: "finally: del browser_clients[websocket]"
HandlerExit(w) ==
    /\ conn[w] = "lost"
    /\ browser_clients' = RemoveSocket(browser_clients, w)
    /\ conn' = [conn EXCEPT ![w] = "closed"]
    /\ UNCHANGED <<command_results, call, now, uuid, sent, answered, sched, hist>>

(* ------------------------- inbound messages ---------------------------- *)
\* {"type": "hello", "name": name}, or {"type": "hello"} without a name:
\* "if 'name' in data" guards the update
HandleHello(w, name) ==
    /\ conn[w] = "open"
    /\ browser_clients' = IF name = NoName THEN browser_clients
                          ELSE SetName(browser_clients, w, name)
    /\ UNCHANGED <<conn, command_results, call, now, uuid, sent, answered, sched, hist>>

\* {"id": id, "result": ...} or {"id": id, "error": ...}: the agent answers a
\* command frame it received, and the handler stores the frame under its id
HandleResult(w, f, payload) ==
    /\ conn[w] = "open"
    /\ f \in sent \ answered
    /\ f.to = w
    /\ command_results' = Put(command_results, f.id,
           [id |-> f.id, from |-> w, by |-> f.by, payload |-> payload])
    /\ answered' = answered \cup {f}
    /\ screenshot_history' = HistoryAfter(w, f.id, payload)
    /\ nsaved' = SavedAfter(w, payload)
    /\ UNCHANGED <<browser_clients, conn, call, now, uuid, sent, sched, handled>>

\* {"id": id, "result": ...} or {"id": id, "error": ...} where id is the id of
\* no command this agent was sent: the handler stores the frame all the same
HandleUnsolicitedResult(w, id, payload) ==
    /\ conn[w] = "open"
    /\ id \notin {f.id : f \in {g \in sent : g.to = w}}
    /\ command_results' = Put(command_results, id,
           [id |-> id, from |-> w, by |-> NoBy, payload |-> payload])
    /\ screenshot_history' = HistoryAfter(w, id, payload)
    /\ nsaved' = SavedAfter(w, payload)
    /\ UNCHANGED <<browser_clients, conn, call, now, uuid, sent, answered, sched,
                   handled>>

\* the rule for results tried before the rule for hello
ClassifyResultFirst(m) ==
    IF m.parse = "malformed" THEN "skipped"
    ELSE IF m.parse # "object" THEN "raises"
    ELSE IF m.id # AbsentId /\ m.body # "none" THEN "result"
    ELSE IF m.type = "hello" THEN "hello"
    ELSE IF m.type = "userActivity" THEN "userActivity"
    ELSE "unhandled"

\* What the message loop makes of a frame.  json.loads: JSONDecodeError is
\* caught inside the loop and the frame skipped; any other error, and
\* data.get on a value that is not a dict, raise out of the loop.  Then the
\* first test that holds decides: type "hello", then an id with a result or
\* an error, then type "userActivity"; each ends in "continue".
Classify(m) ==
    IF m.parse = "malformed" THEN "skipped"
    ELSE IF m.parse # "object" THEN "raises"
    ELSE IF m.type = "hello" THEN "hello"
    ELSE IF m.id # AbsentId /\ m.body # "none" THEN "result"
    ELSE IF m.type = "userActivity" THEN "userActivity"
    ELSE "unhandled"

\* "if activity in [...]"
Significant(activity) ==
    activity \in {"pageLoad", "pageNavigation", "click", "formSubmission"}

\* the frame makes the handler raise out of its message loop: it cannot be
\* read as a dict, its id cannot be a key of command_results (TypeError:
\* unhashable), '"screenshot" in data["result"]' is asked of a value that is
\* null or a number (TypeError, after the frame was stored), or
\* capture_screenshot_for_activity calls activity_data.get on a value that is
\* not a dict, before its try
MessageRaises(m) ==
    \/ Classify(m) = "raises"
    \/ Classify(m) = "result" /\ m.id = UnhashableId
    \/ Classify(m) = "result" /\ m.body = "nonobject"
    \/ Classify(m) = "userActivity" /\ Significant(m.activity) /\ m.data # "object"

\* the frame is stored in command_results
MessageStored(m) == Classify(m) = "result" /\ m.id # UnhashableId

\* the frame makes the handler send a screenshot command to its websocket
MessageCaptures(m) ==
    Classify(m) = "userActivity" /\ Significant(m.activity) /\ m.data = "object"

\* One pass of "async for message in websocket" for any frame m: the frame is
\* parsed, classified and handled.  A frame that makes the handler raise
\* ends the loop: "except Exception" logs, "finally" removes the websocket
\* from the registry, the handler returns and the connection is closed.
HandleMessage(w, m) ==
    /\ conn[w] = "open"
    /\ MessageCaptures(m) => uuid < MaxUuid
    /\ handled' = [n |-> handled.n + 1, ws |-> w, msg |-> m]
    /\ browser_clients' =
           IF MessageRaises(m) THEN RemoveSocket(browser_clients, w)
           ELSE IF Classify(m) = "hello" /\ m.name # NoName
           THEN SetName(browser_clients, w, m.name)
           ELSE browser_clients
    /\ conn' = IF MessageRaises(m) THEN [conn EXCEPT ![w] = "closed"] ELSE conn
    /\ command_results' =
           IF MessageStored(m)
           THEN Put(command_results, m.id,
                    [id |-> m.id, from |-> w, by |-> NoBy, payload |-> m.body])
           ELSE command_results
    /\ screenshot_history' =
           IF MessageStored(m) THEN HistoryAfter(w, m.id, m.body)
           ELSE screenshot_history
    /\ nsaved' = IF MessageStored(m) THEN SavedAfter(w, m.body) ELSE nsaved
    /\ uuid' = IF MessageCaptures(m) THEN uuid + 1 ELSE uuid
    /\ sent' = IF MessageCaptures(m)
               THEN sent \cup {Frame(w, ActivityCommandId(uuid + 1), ByActivity(uuid + 1))}
               ELSE sent
    /\ UNCHANGED <<call, now, answered, sched>>

\* {"type": "userActivity", "activity": activity}: a significant activity
\* makes capture_screenshot_for_activity send a screenshot command, with an id
\* of its own, to this websocket
HandleActivity(w, activity) ==
    /\ conn[w] = "open"
    /\ IF activity \in {"pageLoad", "pageNavigation", "click", "formSubmission"}
       THEN /\ uuid < MaxUuid
            /\ uuid' = uuid + 1
            /\ sent' = sent \cup {Frame(w, ActivityCommandId(uuid + 1), ByActivity(uuid + 1))}
       ELSE UNCHANGED <<uuid, sent>>
    /\ UNCHANGED <<browser_clients, conn, command_results, call, now, answered, sched, hist>>

(* ---------------------------- the wall clock --------------------------- *)
Tick ==
    /\ now < MaxClock
    /\ now' = now + 1
    /\ UNCHANGED <<browser_clients, conn, command_results, call, uuid, sent, answered, sched, hist>>

(* --------------------- send_to_browser and its callers ----------------- *)
\* the call raises out of send_to_browser: the route does not catch it
Raised(r) == [r EXCEPT !.pc = "done", !.ret = "raised", !.outcome = "500"]

\* send_to_browser returned False: HTTPException 503
Unavailable(r) == [r EXCEPT !.pc = "done", !.ret = "False", !.outcome = "503"]

\* send_to_browser returned True: the route enters its wait loop
Waiting(r) == [r EXCEPT !.pc = "polling", !.ret = "True"]

\* An API call, from the route's entry to the first suspension of
\* send_to_browser.  The command id is built from the wall clock.  An empty
\* registry and an unresolved target return False.  A broadcast creates one
\* send per registered websocket and awaits asyncio.gather of them: the sends
\* run as tasks of their own.  A targeted dispatch awaits the send directly:
\* the frame is written (or the send raises) before anything else runs.
Dispatch(c, e, t) ==
    LET id == ApiCommandId(e, now)
        r0 == [call[c] EXCEPT !.endpoint = e, !.target = t, !.id = id,
                              !.recips = RegistrySockets(browser_clients)]
        tw == FindTarget(browser_clients, t)
    IN  /\ call[c].pc = "idle"
        /\ IF RegistryEmpty(browser_clients)
           THEN /\ call' = [call EXCEPT ![c] = Unavailable(r0)]
                /\ UNCHANGED sent
           ELSE IF t = NoTarget
           THEN /\ call' = [call EXCEPT ![c] =
                       [r0 EXCEPT !.pc = "gather",
                                  !.unsent = BroadcastTargets(browser_clients)]]
                /\ UNCHANGED sent
           ELSE IF tw = 0
           THEN /\ call' = [call EXCEPT ![c] = Unavailable(r0)]
                /\ UNCHANGED sent
           ELSE IF SendRaises(tw)
           THEN /\ call' = [call EXCEPT ![c] = Raised([r0 EXCEPT !.tws = tw])]
                /\ UNCHANGED sent
           ELSE /\ call' = [call EXCEPT ![c] = [r0 EXCEPT !.pc = "sending", !.tws = tw]]
                /\ sent' = sent \cup {Frame(tw, id, ByCall(c))}
        /\ UNCHANGED <<browser_clients, conn, command_results, now, uuid, answered, sched, hist>>

\* one of the sends asyncio.gather runs for a broadcast: it writes the frame,
\* or raises when the connection is closed.  The other sends of the gather
\* are not cancelled by a failure: they still run.
BroadcastSend(c, w) ==
    /\ w \in call[c].unsent
    /\ IF SendRaises(w)
       THEN /\ call' = [call EXCEPT ![c].unsent = @ \ {w}, ![c].failed = TRUE]
            /\ UNCHANGED sent
       ELSE /\ call' = [call EXCEPT ![c].unsent = @ \ {w}]
            /\ sent' = sent \cup {Frame(w, call[c].id, ByCall(c))}
    /\ UNCHANGED <<browser_clients, conn, command_results, now, uuid, answered, sched, hist>>

\* "await asyncio.gather(...)" resumes: with the first exception of a send as
\* soon as one has failed, else with every send done, and then
\* send_to_browser returns True
GatherReturn(c) ==
    /\ call[c].pc = "gather"
    /\ call[c].failed \/ call[c].unsent = {}
    /\ call' = [call EXCEPT ![c] =
           IF call[c].failed THEN Raised(call[c]) ELSE Waiting(call[c])]
    /\ UNCHANGED <<browser_clients, conn, command_results, now, uuid, sent, answered, sched, hist>>

\* "await target_websocket.send(command_json)" resumes; the log line then
\* reads browser_clients[target_websocket], a KeyError once the handler of
\* that websocket has removed it
SendReturn(c) ==
    /\ call[c].pc = "sending"
    /\ call' = [call EXCEPT ![c] =
           IF call[c].tws \in RegistrySockets(browser_clients)
           THEN Waiting(call[c]) ELSE Raised(call[c])]
    /\ UNCHANGED <<browser_clients, conn, command_results, now, uuid, sent, answered, sched, hist>>

\* one pass of "for _ in range(n)": "if command_id in command_results:
\* return command_results.pop(command_id)", else "await asyncio.sleep(0.1)".
\* polls counts the passes made; the counter dies with the return.
Poll(c) ==
    /\ call[c].pc = "polling"
    /\ call[c].polls < PollCount(call[c].endpoint)
    /\ IF call[c].id \in DOMAIN command_results
       THEN /\ call' = [call EXCEPT ![c].pc = "done", ![c].outcome = "result",
                                    ![c].polls = 0,
                                    ![c].got = command_results[call[c].id]]
            /\ command_results' = Take(command_results, call[c].id)
       ELSE /\ call' = [call EXCEPT ![c].polls = @ + 1]
            /\ UNCHANGED command_results
    /\ UNCHANGED <<browser_clients, conn, now, uuid, sent, answered, sched, hist>>

\* the loop is exhausted, its last sleep is over: HTTPException 504
Timeout(c) ==
    /\ call[c].pc = "polling"
    /\ call[c].polls = PollCount(call[c].endpoint)
    /\ call' = [call EXCEPT ![c].pc = "done", ![c].outcome = "504"]
    /\ UNCHANGED <<browser_clients, conn, command_results, now, uuid, sent, answered, sched, hist>>

(* ------------------- the periodic capture scheduler -------------------- *)
\* cancel left out
CancelTaskNoOp(ts, t) == ts

\* a cancellation that reaches the loop in "await websocket.send" is caught
\* by the "except Exception" around the send and lost
CancelTaskSleepOnly(ts, t) ==
    IF t = 0 THEN ts
    ELSE [ts EXCEPT ![t].pc = IF @ = "sleep" THEN "cancelled" ELSE @]

\* periodic_screenshot_task.cancel(): CancelledError is thrown into the loop
\* at the await it is suspended in; no "except Exception" catches it, the
\* outer "except asyncio.CancelledError" ends the loop.  A task that has ended
\* is not changed.
CancelTask(ts, t) ==
    IF t = 0 THEN ts
    ELSE [ts EXCEPT ![t].pc = IF Active(ts[t]) THEN "cancelled" ELSE @]

\* the test always true
IsSetAlways(t) == TRUE

\* "periodic_screenshot_task is not None"
IsSet(t) == t # 0

\* only intervals below 1 rejected
RejectedBelowOne(interval) == interval < 1

\* "if settings.interval < 5": HTTPException 400
Rejected(interval) == interval < MinInterval

\* "interval or SCREENSHOT_INTERVAL": None and 0 give the stored interval
LoopInterval(given, interval) ==
    IF given /\ interval # 0 THEN interval ELSE SCREENSHOT_INTERVAL

\* start_periodic_screenshots(interval); given is "interval is not None".
\* There is no await in it: the stored interval is updated, the current task
\* is cancelled and a new task is created and stored in one step.
StartPeriodic(given, interval) ==
    /\ SCREENSHOT_INTERVAL' = IF given THEN interval ELSE SCREENSHOT_INTERVAL
    /\ tasks' = Append(IF IsSet(periodic_screenshot_task)
                       THEN CancelTask(tasks, periodic_screenshot_task) ELSE tasks,
                       NewTask(LoopInterval(given, interval)))
    /\ periodic_screenshot_task' = Len(tasks) + 1

\* stop_periodic_screenshots(): cancels and forgets the current task
StopPeriodic ==
    /\ tasks' = IF IsSet(periodic_screenshot_task)
                THEN CancelTask(tasks, periodic_screenshot_task) ELSE tasks
    /\ periodic_screenshot_task' = 0
    /\ UNCHANGED SCREENSHOT_INTERVAL

\* start_websocket_server: once serve() has returned, the periodic task is
\* started with the stored interval
StartWebsocketServer ==
    /\ ~websocket_server
    /\ websocket_server' = TRUE
    /\ StartPeriodic(FALSE, 0)
    /\ UNCHANGED <<hist, browser_clients, conn, command_results, call, now, uuid, sent,
                   answered, reply>>

\* POST /screenshots/settings with the body {interval, enabled}
UpdateScreenshotSettings(interval, enabled) ==
    LET r == [reply EXCEPT !.n = @ + 1, !.interval = interval, !.enabled = enabled]
    IN  /\ reply.n < MaxRequests
        /\ IF Rejected(interval)
           THEN /\ reply' = [r EXCEPT !.code = "400", !.message = "none"]
                /\ UNCHANGED <<periodic_screenshot_task, SCREENSHOT_INTERVAL, tasks>>
           ELSE IF enabled
           THEN /\ StartPeriodic(TRUE, interval)
                /\ reply' = [r EXCEPT !.code = "200", !.message = "enabled"]
           ELSE /\ StopPeriodic
                /\ reply' = [r EXCEPT !.code = "200",
                                !.message = IF IsSet(periodic_screenshot_task)
                                            THEN "disabled" ELSE "already disabled"]
        /\ UNCHANGED <<hist, browser_clients, conn, command_results, call, now, uuid, sent,
                       answered, websocket_server>>

\* The loop from one entry of the dict to its next suspension.  seen are the
\* websockets the iterator has passed, u the uuid4 values drawn.  The
\* iterator yields the first entry it has not passed; a send that raises is
\* handled and the loop goes on without suspending; a send that is made
\* suspends the loop in "sending"; with no entry left the loop is back in
\* asyncio.sleep.
RECURSIVE PeriodicRun(_, _, _, _)

\* a send that raises ends the loop
AfterSendErrorEndsLoop(reg, seen, u, nf) ==
    [pc |-> "crashed", seen |-> seen, to |-> 0, u |-> u, nfailed |-> nf]

\* "except Exception as e: logger.error(...)": the for loop goes on
AfterSendError(reg, seen, u, nf) == PeriodicRun(reg, seen, u, nf)

PeriodicRun(reg, seen, u, nf) ==
    LET rest == {i \in 1..Len(reg) : reg[i].ws \notin seen}
    IN  IF rest = {}
        THEN [pc |-> "sleep", seen |-> seen, to |-> 0, u |-> u, nfailed |-> nf]
        ELSE LET w == reg[CHOOSE i \in rest : \A j \in rest : i <= j].ws
             IN  IF SendRaises(w)
                 THEN AfterSendError(reg, seen \cup {w}, u + 1, nf + 1)
                 ELSE [pc |-> "sending", seen |-> seen \cup {w}, to |-> w,
                       u |-> u + 1, nfailed |-> nf]

\* the task's record and the frames after a run of the loop body
Ran(t, r, len0, cycles, start) ==
    /\ tasks' = [tasks EXCEPT ![t] =
           [@ EXCEPT !.pc = r.pc, !.seen = r.seen, !.len0 = len0, !.cycles = cycles,
                     !.start = start,
                     !.nfailed = r.nfailed,
                     !.nsent = IF r.to = 0 THEN @ ELSE @ + 1]]
    /\ uuid' = r.u
    /\ sent' = IF r.to = 0 THEN sent
               ELSE sent \cup {Frame(r.to, PeriodicCommandId(r.u), ByPeriodic(r.u))}

\* "await asyncio.sleep(interval)" is over: with an empty registry the loop
\* sleeps again, else it begins to iterate browser_clients.items()
PeriodicWake(t) ==
    /\ t \in 1..Len(tasks)
    /\ tasks[t].pc = "sleep"
    /\ tasks[t].cycles < MaxCycles
    /\ IF RegistryEmpty(browser_clients)
       THEN /\ tasks' = [tasks EXCEPT ![t].cycles = @ + 1]
            /\ UNCHANGED <<uuid, sent>>
       ELSE Ran(t, PeriodicRun(browser_clients, {}, uuid, tasks[t].nfailed),
                Len(browser_clients), tasks[t].cycles + 1,
                RegistrySockets(browser_clients))
    /\ UNCHANGED <<hist, browser_clients, conn, command_results, call, now, answered,
                   websocket_server, periodic_screenshot_task, SCREENSHOT_INTERVAL,
                   reply>>

\* "await websocket.send(...)" resumes and the for loop asks the iterator for
\* its next entry: RuntimeError (dictionary changed size during iteration)
\* when the size of the registry is no longer len0, which the outer
\* "except Exception" turns into the end of the loop
PeriodicResume(t) ==
    /\ t \in 1..Len(tasks)
    /\ tasks[t].pc = "sending"
    /\ IF Len(browser_clients) # tasks[t].len0
       THEN /\ tasks' = [tasks EXCEPT ![t].pc = "crashed"]
            /\ UNCHANGED <<uuid, sent>>
       ELSE Ran(t, PeriodicRun(browser_clients, tasks[t].seen, uuid, tasks[t].nfailed),
                tasks[t].len0, tasks[t].cycles, tasks[t].start)
    /\ UNCHANGED <<hist, browser_clients, conn, command_results, call, now, answered,
                   websocket_server, periodic_screenshot_task, SCREENSHOT_INTERVAL,
                   reply>>

(* ------------------------ the specifications -------------------------- *)
\* The registry and the dispatcher: connections come, introduce themselves,
\* answer and go while API calls run send_to_browser.  The calls stop where
\* send_to_browser returns.
NextDispatch ==
    \/ \E w \in Agents : Connect(w)
    \/ \E w \in Agents : Disconnect(w)
    \/ \E w \in Agents : HandlerExit(w)
    \/ \E w \in Agents, n \in HelloNames : HandleHello(w, n)
    \/ \E w \in Agents, f \in sent, p \in {"result"} : HandleResult(w, f, p)
    \/ \E c \in Calls, e \in {"navigate", "screenshot"}, t \in Targets : Dispatch(c, e, t)
    \/ \E c \in Calls, w \in Agents : BroadcastSend(c, w)
    \/ \E c \in Calls : GatherReturn(c)
    \/ \E c \in Calls : SendReturn(c)

SpecDispatch == Init /\ [][NextDispatch]_vars

\* The waiters: one agent connects; API calls of the four endpoints
\* broadcast, the agent answers, the calls poll the store while the clock runs.
NextWait ==
    \/ \E w \in {1} : Connect(w)
    \/ \E w \in Agents, f \in sent, p \in {"result"} : HandleResult(w, f, p)
    \/ Tick
    \/ \E c \in Calls, e \in Endpoints, t \in {NoTarget} : Dispatch(c, e, t)
    \/ \E c \in Calls, w \in Agents : BroadcastSend(c, w)
    \/ \E c \in Calls : GatherReturn(c)
    \/ \E c \in Calls : Poll(c)
    \/ \E c \in Calls : Timeout(c)

SpecWait == Init /\ [][NextWait]_vars

\* The command ids: agents connect and report user activity, which triggers
\* captures, while API calls broadcast and the clock runs.  The calls stop
\* where send_to_browser returns.
NextCapture ==
    \/ \E w \in Agents : Connect(w)
    \/ \E w \in Agents, a \in Activities : HandleActivity(w, a)
    \/ \E w \in Agents, f \in sent, p \in {"error"} : HandleResult(w, f, p)
    \/ Tick
    \/ \E c \in Calls, e \in {"navigate", "screenshot"}, t \in {NoTarget} : Dispatch(c, e, t)
    \/ \E c \in Calls, w \in Agents : BroadcastSend(c, w)
    \/ \E c \in Calls : GatherReturn(c)

SpecCapture == Init /\ [][NextCapture]_vars

\* The registry alone: connections come, introduce themselves, with or
\* without a name, and go.
NextRegistry ==
    \/ \E w \in Sockets : Connect(w)
    \/ \E w \in Sockets : Disconnect(w)
    \/ \E w \in Sockets : HandlerExit(w)
    \/ \E w \in Sockets, n \in HelloNames \cup {"browser_1", NoName} : HandleHello(w, n)

SpecRegistry == Init /\ [][NextRegistry]_vars

\* The result store: agents connect and report results, answers to the
\* commands they were sent and others, while API calls dispatch.  The calls
\* stop where send_to_browser returns.
NextStore ==
    \/ \E w \in Agents : Connect(w)
    \/ \E w \in Agents, f \in sent, p \in {"result", "error"} : HandleResult(w, f, p)
    \/ \E w \in Agents, id \in StrayIds, p \in {"result"} : HandleUnsolicitedResult(w, id, p)
    \/ Tick
    \/ \E c \in Calls, e \in {"navigate"}, t \in {NoTarget, "browser_1"} : Dispatch(c, e, t)
    \/ \E c \in Calls, w \in Agents : BroadcastSend(c, w)
    \/ \E c \in Calls : GatherReturn(c)
    \/ \E c \in Calls : SendReturn(c)

SpecStore == Init /\ [][NextStore]_vars

\* Waiters and several agents: two agents connect; navigate calls, targeted
\* or broadcast, are answered by the agents that got the command while the
\* calls poll the store and the clock runs.
NextTake ==
    \/ \E w \in Agents : Connect(w)
    \/ \E w \in Agents, f \in sent, p \in {"result"} : HandleResult(w, f, p)
    \/ Tick
    \/ \E c \in Calls, e \in {"navigate"}, t \in {NoTarget, "browser_1"} : Dispatch(c, e, t)
    \/ \E c \in Calls, w \in Agents : BroadcastSend(c, w)
    \/ \E c \in Calls : GatherReturn(c)
    \/ \E c \in Calls : SendReturn(c)
    \/ \E c \in Calls : Poll(c)
    \/ \E c \in Calls : Timeout(c)

SpecTake == Init /\ [][NextTake]_vars

\* The periodic capture scheduler: the server starts, the settings route
\* starts and stops the loop, the loop wakes and sends while agents connect
\* and go.
NextScheduler ==
    \/ \E w \in Agents : Connect(w)
    \/ \E w \in Agents : Disconnect(w)
    \/ \E w \in Agents : HandlerExit(w)
    \/ StartWebsocketServer
    \/ \E i \in SettingsIntervals, en \in BOOLEAN : UpdateScreenshotSettings(i, en)
    \/ \E t \in 1..Len(tasks) : PeriodicWake(t)
    \/ \E t \in 1..Len(tasks) : PeriodicResume(t)

SpecScheduler == Init /\ [][NextScheduler]_vars

\* The message loop: agents connect and send frames of every kind, well
\* formed or not.
NextMessages ==
    \/ \E w \in Agents : Connect(w)
    \/ \E w \in Agents, m \in Messages : handled.n < MaxFrames /\ HandleMessage(w, m)

SpecMessages == Init /\ [][NextMessages]_vars

\* The screenshot history: agents connect and report screenshots, more than
\* the history keeps.
NextHistory ==
    \/ \E w \in Agents : Connect(w)
    \/ \E w \in Agents :
          /\ nsaved[w] < MaxSaves
          /\ HandleMessage(w, Msg("object", "none", NoName, MsgId, "screenshot", "", "object"))

SpecHistory == Init /\ [][NextHistory]_vars

(* ------------------------------ claims --------------------------------- *)
\* the frames call c has written
FramesOf(c) == {f \in sent : f.by = ByCall(c)}

\* send_to_browser of call c has returned or raised
Returned(c) == call[c].ret # "none"

\* C1: whenever the registry is empty, send_to_browser, for any target,
\* returns False without raising, sends no frame to any connection (neither
\* in the step nor later) and leaves the result store unchanged.
C1_EmptyRegistryFails ==
    /\ [][\A c \in Calls :
            (call[c].pc = "idle" /\ call'[c].pc # "idle" /\ Len(browser_clients) = 0)
            => /\ call'[c].ret = "False"
               /\ call'[c].pc = "done"
               /\ call'[c].unsent = {}
               /\ sent' = sent
               /\ command_results' = command_results]_vars
    /\ [](\A c \in Calls : call[c].ret = "False" => FramesOf(c) = {})

\* a targeted call met an empty registry and got False; the store holds the
\* answer to an earlier call's command
C1_Witness ==
    \E c \in Calls :
        /\ call[c].ret = "False" /\ call[c].recips = {} /\ call[c].target = "browser_1"
        /\ DOMAIN command_results # {}

\* C2: whenever the registry is not empty and the target is a string equal
\* to neither the id nor the name of any registered connection,
\* send_to_browser returns False and no frame is sent to any connection
\* (neither in the step nor later).
C2_UnknownTargetFails ==
    /\ [][\A c \in Calls :
            (/\ call[c].pc = "idle" /\ call'[c].pc # "idle"
             /\ Len(browser_clients) > 0
             /\ call'[c].target # NoTarget
             /\ \A i \in 1..Len(browser_clients) :
                    /\ browser_clients[i].id # call'[c].target
                    /\ browser_clients[i].name # call'[c].target)
            => /\ call'[c].ret = "False"
               /\ call'[c].pc = "done"
               /\ call'[c].unsent = {}
               /\ sent' = sent]_vars
    /\ [](\A c \in Calls :
            (call[c].ret = "False" /\ call[c].target # NoTarget) => FramesOf(c) = {})

\* a call targeted "roomA" while connections were registered, none of them
\* under that name or id, and got False
C2_Witness ==
    \E c \in Calls :
        /\ call[c].ret = "False" /\ call[c].recips # {} /\ call[c].target = "roomA"

\* C3: when the target equals the id or the name of a registered connection,
\* send_to_browser sends exactly one frame, to the connection the target
\* resolved to and to no other, and returns True.
C3_TargetedDelivers ==
    \A c \in Calls :
        (Returned(c) /\ call[c].tws # 0)
        => /\ call[c].ret = "True"
           /\ Cardinality(FramesOf(c)) = 1
           /\ \A f \in FramesOf(c) : f.to = call[c].tws

\* C4: a broadcast over a non-empty registry in which the send to one
\* recipient raises still returns True to the caller and does not raise.
C4_BroadcastSurvivesSendFailure ==
    \A c \in Calls :
        (Returned(c) /\ call[c].target = NoTarget /\ call[c].failed)
        => call[c].ret = "True"

\* C5: a broadcast over a non-empty registry delivers the same serialized
\* command to every connection registered at the moment of the dispatch and
\* returns True.
C5_BroadcastReachesAll ==
    \A c \in Calls :
        (Returned(c) /\ call[c].target = NoTarget /\ call[c].recips # {})
        => /\ call[c].ret = "True"
           /\ {f.to : f \in FramesOf(c)} = call[c].recips
           /\ \A f \in FramesOf(c) : f.id = call[c].id

\* C6: if an agent's result for the command of an API call is written to the
\* store after the dispatch and before the call's wait is over, the call
\* returns exactly that result.
C6_ResultInTimeIsReturned ==
    [][\A c \in Calls :
        (call[c].pc = "polling" /\ call'[c].pc = "done")
        => \A f \in FramesOf(c) \cap answered :
              /\ call'[c].outcome = "result"
              /\ call'[c].got.from = f.to
              /\ call'[c].got.by = f.by]_vars

\* C7: of two API calls that wait on the same command id, each result
\* written to the store is returned to at most one: no two calls return the
\* same stored result.
C7_PopOnce ==
    \A c, d \in Calls :
        (c # d /\ call[c].outcome = "result" /\ call[d].outcome = "result")
        => call[c].got # call[d].got

\* two calls waited on one command id; a single result was written under it:
\* one call returned it, the other found nothing and timed out
C7_Witness ==
    \E c, d \in Calls :
        /\ c # d
        /\ call[c].id = call[d].id
        /\ call[c].outcome = "result"
        /\ call[d].outcome = "504"
        /\ Cardinality(answered) = 1

\* C8: a waiting call returns the timeout condition only after all of its
\* polls have been made: 30 polls for navigate and launch-activity, 50 polls
\* for screenshot and content.
C8_TimeoutAfterAllPolls ==
    /\ [](\A c \in Calls :
            call[c].outcome = "504" =>
                call[c].polls = IF call[c].endpoint \in {"navigate", "launch"}
                                THEN 30 ELSE 50)
    /\ [][\A c \in Calls :
            /\ (call[c].pc = "polling" /\ call'[c].pc = "polling")
               => call'[c].polls \in {call[c].polls, call[c].polls + 1}
            /\ (call[c].outcome # "504" /\ call'[c].outcome = "504")
               => (call[c].pc = "polling" /\ call'[c].polls = call[c].polls)]_vars

\* a launch-activity call and a content call, whose commands the agent never
\* answered, have both timed out
C8_Witness ==
    \E c, d \in Calls :
        /\ call[c].endpoint = "launch" /\ call[c].outcome = "504"
        /\ call[d].endpoint = "content" /\ call[d].outcome = "504"
        /\ answered = {}

\* C9: the waiter of an API call never returns a result that an agent
\* produced in response to the command of a different API call.
C9_OwnResultOnly ==
    \A c \in Calls :
        call[c].outcome = "result" => call[c].got.by = ByCall(c)

\* C10: any two commands issued by the broker have different ids.
C10_CommandIdsUnique ==
    \A f, g \in sent : f.by # g.by => f.id # g.id

\* C11: once the waiter of a command id has returned a result, the result
\* store holds no entry under that id, as long as the id has not been
\* dispatched by another call; for targeted dispatch and for broadcast to
\* several agents.
C11_NoStaleEntry ==
    \A c \in Calls :
        (/\ call[c].outcome = "result"
         /\ \A d \in Calls \ {c} : call[d].id # call[c].id)
        => call[c].id \notin DOMAIN command_results

\* C12: in every reachable state, each key of the result store is the id of
\* a command that the broker dispatched earlier.
C12_StoreKeysDispatched ==
    DOMAIN command_results \subseteq {f.id : f \in sent}

\* C13: in every reachable state, under any interleaving of connects and
\* disconnects, no two registered connections have the same id.
C13_RegistryIdsUnique ==
    \A i, j \in 1..Len(browser_clients) :
        i # j => browser_clients[i].id # browser_clients[j].id

\* the loops that are active
ActiveTasks(ts) == {t \in 1..Len(ts) : Active(ts[t])}

\* a step in which start_periodic_screenshots ran
Started == Len(tasks') = Len(tasks) + 1

\* a step in which update_screenshot_settings ran
Requested == reply'.n # reply.n

\* C14: after any sequence of start and stop calls at most one periodic loop
\* is active, and it is the task the scheduler holds; a start leaves exactly
\* one loop active, the one it created, and the loop a start of the settings
\* route created runs at the interval of that request (an earlier loop is
\* cancelled).
C14_OneLoop ==
    /\ [](Cardinality(ActiveTasks(tasks)) <= 1)
    /\ [](ActiveTasks(tasks) \subseteq {periodic_screenshot_task})
    /\ [][Started =>
            /\ ActiveTasks(tasks') = {Len(tasks')}
            /\ periodic_screenshot_task' = Len(tasks')
            /\ Requested => /\ tasks'[Len(tasks')].interval = reply'.interval
                            /\ SCREENSHOT_INTERVAL' = reply'.interval]_vars

\* the settings route started a loop at interval 5 and then one at interval
\* 10: the first is cancelled, the second is active
C14_Witness ==
    /\ Len(tasks) = 2
    /\ tasks[1].interval = 5 /\ tasks[1].pc = "cancelled"
    /\ tasks[2].interval = 10 /\ Active(tasks[2])

\* a step in which update_screenshot_settings called stop_periodic_screenshots
StopCalled == Requested /\ ~reply'.enabled /\ reply'.interval >= MinInterval

\* C15: stop_periodic_screenshots on a running scheduler cancels the loop,
\* returns True (reported as disabled) and leaves the scheduler stopped; on a
\* stopped scheduler it returns False (reported as already disabled), changes
\* nothing and leaves the scheduler stopped.
C15_StopIdempotent ==
    [][StopCalled =>
        /\ reply'.code = "200"
        /\ periodic_screenshot_task' = 0
        /\ ActiveTasks(tasks') = {}
        /\ SCREENSHOT_INTERVAL' = SCREENSHOT_INTERVAL
        /\ periodic_screenshot_task # 0 =>
               /\ reply'.message = "disabled"
               /\ ~Active(tasks'[periodic_screenshot_task])
        /\ periodic_screenshot_task = 0 =>
               /\ reply'.message = "already disabled"
               /\ tasks' = tasks]_vars

\* the loop the server started was stopped, and a second stop was answered
\* "already disabled"
C15_Witness ==
    /\ reply.n = 2 /\ reply.message = "already disabled"
    /\ Len(tasks) = 1 /\ tasks[1].pc = "cancelled"
    /\ periodic_screenshot_task = 0

\* the registered websockets the iterator of loop t has not passed yet
Unvisited(t) ==
    IF tasks[t].pc = "sleep" THEN RegistrySockets(browser_clients)
    ELSE RegistrySockets(browser_clients) \ tasks[t].seen

\* C16: in the periodic loop, a send that raises stops neither the cycle nor
\* the loop: in the step in which a send failed the loop goes on to the
\* remaining connections, writes the command of the next connection that is
\* open, or is back in its sleep with every registered connection visited,
\* from where the later cycles run.
C16_SendFailureContained ==
    [][\A t \in 1..Len(tasks) :
        tasks'[t].nfailed > tasks[t].nfailed =>
            /\ tasks'[t].pc \in {"sleep", "sending"}
            /\ IF \E w \in Unvisited(t) : conn[w] = "open"
               THEN /\ tasks'[t].pc = "sending"
                    /\ tasks'[t].nsent = tasks[t].nsent + 1
                    /\ \E f \in sent' \ sent :
                          /\ f.to \in Unvisited(t) /\ conn[f.to] = "open"
                          /\ f.id.prefix = "periodic_screenshot_"
               ELSE /\ tasks'[t].pc = "sleep"
                    /\ sent' = sent
                    /\ RegistrySockets(browser_clients) \subseteq tasks'[t].seen]_vars

\* in each of two cycles of one loop the send to the first registered
\* connection raised and the second connection was sent its command
C16_Witness ==
    \E t \in 1..Len(tasks) :
        /\ tasks[t].cycles = 2 /\ tasks[t].pc = "sending"
        /\ tasks[t].nfailed = 2 /\ tasks[t].nsent = 2

\* C17: every navigate, screenshot, content and launch-activity call ends in
\* exactly one of three outcomes: 503 when send_to_browser reported failure,
\* with the result store neither polled nor changed, the agent's result, or
\* 504 when every poll found nothing.
C17_ThreeOutcomes ==
    \A c \in Calls :
        call[c].pc = "done" =>
            /\ call[c].outcome \in {"503", "result", "504"}
            /\ call[c].outcome = "503" <=> call[c].ret = "False"
            /\ call[c].outcome = "503" => call[c].polls = 0

\* C18: update_screenshot_settings with an interval below 5 is rejected with
\* an error, whatever the enabled flag is, and leaves the scheduler task and
\* the stored interval unchanged; no loop runs with an interval below 5.
C18_ShortIntervalRejected ==
    /\ [][(Requested /\ reply'.interval < 5) =>
            /\ reply'.code = "400"
            /\ UNCHANGED <<periodic_screenshot_task, SCREENSHOT_INTERVAL, tasks>>]_vars
    /\ [](\A t \in 1..Len(tasks) : tasks[t].interval >= 5)
    /\ [](SCREENSHOT_INTERVAL >= 5)

\* a request to disable with interval 4 was rejected while a loop started at
\* interval 10 stays active
C18_Witness ==
    /\ reply.code = "400" /\ reply.interval = 4 /\ ~reply.enabled
    /\ periodic_screenshot_task # 0
    /\ Active(tasks[periodic_screenshot_task])
    /\ SCREENSHOT_INTERVAL = 10

\* C19: after a hello frame with a name n the entry of that connection has
\* the name n and the id it had, and a lookup by the target n resolves to
\* that connection.
C19_HelloNamesTarget ==
    [][\A w \in RegistrySockets(browser_clients) \cap RegistrySockets(browser_clients') :
        EntryOf(browser_clients', w).name # EntryOf(browser_clients, w).name =>
            /\ EntryOf(browser_clients', w).id = EntryOf(browser_clients, w).id
            /\ FindTarget(browser_clients', EntryOf(browser_clients', w).name) = w]_vars

\* the connections that are accepted and whose handler has not exited
HandlerActive == {w \in Sockets : conn[w] \in {"open", "lost"}}

\* C20: a connection is in the registry exactly while its handler is active:
\* it is registered on accept, once, with the name "Unknown"; when its
\* stream has ended the handler removes it and exits, and the connection is
\* never registered again.
C20_RegisteredWhileActive ==
    /\ [](RegistrySockets(browser_clients) = HandlerActive)
    /\ [](Len(browser_clients) = Cardinality(RegistrySockets(browser_clients)))
    /\ [][\A w \in Sockets :
            /\ (conn[w] = "free" /\ conn'[w] # "free") =>
                   /\ conn'[w] = "open"
                   /\ w \in RegistrySockets(browser_clients')
                   /\ EntryOf(browser_clients', w).name = "Unknown"
            /\ (conn[w] = "lost" /\ conn'[w] # "lost") =>
                   /\ conn'[w] = "closed"
                   /\ w \notin RegistrySockets(browser_clients')
            /\ conn[w] = "closed" => conn'[w] = "closed"]_vars

\* one connection has come and gone, the handler of another is active: the
\* registry holds the second only
C20_Witness ==
    \E w, v \in Sockets :
        /\ conn[w] = "closed" /\ conn[v] = "open"
        /\ RegistrySockets(browser_clients) = {v}
        /\ EntryOf(browser_clients, v).name = "roomA"

\* a step in which the handler of a connection read a frame
Read == handled'.n # handled.n

\* the frame is a JSON object that the rule for hello does not take and that
\* carries an id with a result or an error
IsResultFrame(m) ==
    m.parse = "object" /\ m.type # "hello" /\ m.id # AbsentId /\ m.body # "none"

\* the frame is a JSON object that only the rule for userActivity takes
IsActivityFrame(m) ==
    m.parse = "object" /\ m.type = "userActivity" /\ ~IsResultFrame(m)

\* C21: an inbound frame that cannot be parsed as JSON is skipped: the
\* connection stays registered with its name unchanged, the result store and
\* the screenshot history are unchanged, no command is sent, and the
\* connection stays open for its following frames.
C21_UnparsableSkipped ==
    [][(Read /\ handled'.msg.parse \in {"malformed", "undecodable"}) =>
        /\ UNCHANGED <<browser_clients, command_results, screenshot_history, sent>>
        /\ conn'[handled'.ws] = "open"]_vars

\* C22: a disconnect of one connection removes only that connection from the
\* registry: every other entry, the result store and the scheduler's tasks
\* are unchanged by the removal, and no periodic loop ends because a
\* connection that was registered when its cycle began has left.
C22_DisconnectContained ==
    /\ [][\A w \in RegistrySockets(browser_clients) :
            w \notin RegistrySockets(browser_clients') =>
                /\ browser_clients' = RemoveSocket(browser_clients, w)
                /\ UNCHANGED <<command_results, tasks, periodic_screenshot_task>>]_vars
    /\ [][\A t \in 1..Len(tasks) :
            (tasks[t].pc = "sending" /\ tasks'[t].pc = "crashed") =>
                tasks[t].start \subseteq RegistrySockets(browser_clients)]_vars

\* the history of the client id of websocket w
HistoryOf(w) == screenshot_history[EntryOf(browser_clients, w).id]

C24_EveryResultObtainable ==
    \A c \in Calls : \A f \in FramesOf(c) \cap answered :
        (\A d \in Calls \ {c} : call[d].id # call[c].id) =>
            \/ /\ f.id \in DOMAIN command_results
               /\ command_results[f.id].from = f.to
            \/ /\ call[c].outcome = "result"
               /\ call[c].got.from = f.to

\* C25: classification is first-match: a frame with type "hello" is treated
\* only as a handshake even when it carries an id with a result (nothing is
\* written to the store, no screenshot is saved or requested); a frame that
\* carries an id with a result or an error is treated only as a result even
\* when its type is "userActivity" (no screenshot command is sent).
C25_FirstMatch ==
    [][Read =>
        /\ (handled'.msg.parse = "object" /\ handled'.msg.type = "hello") =>
               /\ UNCHANGED <<command_results, screenshot_history, nsaved, sent, uuid, conn>>
               /\ handled'.msg.name # NoName =>
                      EntryOf(browser_clients', handled'.ws).name = handled'.msg.name
        /\ IsResultFrame(handled'.msg) =>
               /\ UNCHANGED <<sent, uuid>>
               /\ \A v \in RegistrySockets(browser_clients') :
                      EntryOf(browser_clients', v) = EntryOf(browser_clients, v)]_vars

\* a hello frame that carried an id and a screenshot has named a connection
\* while no screenshot was saved, and a userActivity frame that carried an id
\* and a result is in the store while no command was sent
C25_Witness ==
    /\ \E i \in 1..Len(browser_clients) : browser_clients[i].name = "roomA"
    /\ \A w \in Sockets : nsaved[w] = 0
    /\ handled.n = 2
    /\ handled.msg = Msg("object", "userActivity", NoName, MsgId, "result", "click", "object")
    /\ MsgId \in DOMAIN command_results
    /\ sent = {}

\* C26: a frame carrying an id and a result or an error is written into the
\* result store under that id, replacing the entry stored before and leaving
\* the other entries alone; when the result carries a (valid) screenshot,
\* exactly one record is appended to the history of the sending connection
\* in the same step.
C26_ResultStored ==
    [][(Read /\ IsResultFrame(handled'.msg)) =>
        /\ handled'.msg.id \in DOMAIN command_results'
        /\ command_results'[handled'.msg.id].from = handled'.ws
        /\ command_results'[handled'.msg.id].payload = handled'.msg.body
        /\ \A k \in DOMAIN command_results \ {handled'.msg.id} :
               k \in DOMAIN command_results' /\ command_results'[k] = command_results[k]
        /\ nsaved'[handled'.ws] =
               IF handled'.msg.body = "screenshot" THEN nsaved[handled'.ws] + 1
               ELSE nsaved[handled'.ws]]_vars

\* C27: a userActivity frame whose activity is significant causes exactly
\* one screenshot command with a fresh id to be sent to the connection that
\* sent the frame and to no other; any other activity sends nothing; nothing
\* is written to the result store.
C27_ActivityCapture ==
    [][(Read /\ IsActivityFrame(handled'.msg)) =>
        /\ command_results' = command_results
        /\ IF Significant(handled'.msg.activity)
           THEN \E f \in sent' \ sent :
                   /\ sent' = sent \cup {f}
                   /\ f.to = handled'.ws
                   /\ f.id.prefix = "screenshot_"
                   /\ \A g \in sent : g.id # f.id
           ELSE sent' = sent]_vars

\* C28: a frame that parses as JSON but matches none of the three message
\* kinds changes no state: registry, result store, screenshot history and
\* scheduler are unchanged, no command is sent, the connection stays open.
C28_UnhandledNoChange ==
    [][(/\ Read
        /\ handled'.msg.parse \in {"object", "nonobject"}
        /\ handled'.msg.type \notin {"hello", "userActivity"}
        /\ ~IsResultFrame(handled'.msg)) =>
        UNCHANGED <<browser_clients, conn, command_results, screenshot_history, sent,
                    sched>>]_vars

\* C29: in each cycle of the periodic loop every connection registered when
\* the cycle began is visited by the loop (and sent its command unless the
\* send raised) before the loop sleeps again or ends; every periodic command
\* has an id with the prefix periodic_screenshot_ and of its own; the loop
\* writes nothing to the result store.
C29_CycleReachesAll ==
    /\ \A t \in 1..Len(tasks) :
          tasks[t].pc \in {"sleep", "crashed"} => tasks[t].start \subseteq tasks[t].seen
    /\ \A f \in sent : f.by.kind = "periodic" =>
          /\ f.id.prefix = "periodic_screenshot_"
          /\ \A g \in sent \ {f} : g.id # f.id
    /\ DOMAIN command_results = {}

\* C30: a periodic loop that has been cancelled, in its sleep or between two
\* sends of a cycle, does nothing more: every later cycle and every later
\* periodic command comes from the task the scheduler holds, the one the
\* latest start created, and the request that cancelled is answered normally.
C30_CancelledLoopSilent ==
    /\ [][\A t \in 1..Len(tasks) :
            /\ tasks[t].pc = "cancelled" => tasks'[t] = tasks[t]
            /\ (tasks'[t].nsent # tasks[t].nsent \/ tasks'[t].cycles # tasks[t].cycles) =>
                   /\ Active(tasks[t])
                   /\ t = periodic_screenshot_task
                   /\ t = Len(tasks)]_vars
    /\ [][sent' # sent =>
            \E t \in 1..Len(tasks) :
                /\ t = periodic_screenshot_task
                /\ tasks'[t].nsent = tasks[t].nsent + 1]_vars
    /\ [](reply.code \in {"none", "200", "400"})

\* the first loop was cancelled between the two sends of a cycle, after one
\* command; the loop started after it has sent commands
C30_Witness ==
    /\ Len(tasks) = 2
    /\ tasks[1].pc = "cancelled" /\ tasks[1].nsent = 1
    /\ Cardinality(tasks[1].start) = 2 /\ Cardinality(tasks[1].seen) = 1
    /\ tasks[2].nsent = 2

(* ---------------------- unclaimed results (C31) ------------------------ *)
\* Results nobody waits for: one agent connects, reports activity and answers
\* every command it gets, from the routes, from the activity capture and from
\* the periodic loop, in time or late, while calls poll the store and time
\* out and the clock runs.
NextUnclaimed ==
    \/ \E w \in {1} : Connect(w)
    \/ \E w \in {1}, a \in {"click"} : HandleActivity(w, a)
    \/ \E w \in {1}, f \in sent, p \in {"result"} : HandleResult(w, f, p)
    \/ Tick
    \/ StartWebsocketServer
    \/ \E t \in 1..Len(tasks) : PeriodicWake(t)
    \/ \E t \in 1..Len(tasks) : PeriodicResume(t)
    \/ \E c \in Calls, e \in {"navigate"}, t \in {NoTarget} : Dispatch(c, e, t)
    \/ \E c \in Calls, w \in {1} : BroadcastSend(c, w)
    \/ \E c \in Calls : GatherReturn(c)
    \/ \E c \in Calls : Poll(c)
    \/ \E c \in Calls : Timeout(c)

SpecUnclaimed == Init /\ [][NextUnclaimed]_vars

\* the entry under k has no waiter and can get none: it answers a capture or
\* a periodic command, or every call that built k has ended and the clock has
\* left the second k was built in
Unclaimed(k) ==
    /\ k \in DOMAIN command_results
    /\ \/ command_results[k].by.kind \in {"activity", "periodic"}
       \/ /\ k.stamp < now
          /\ \A c \in Calls : call[c].id = k => call[c].pc = "done"

FairWait ==
    \A c \in Calls :
        /\ WF_vars(Poll(c))
        /\ WF_vars(Timeout(c))
        /\ WF_vars(GatherReturn(c))
        /\ WF_vars(SendReturn(c))
        /\ \A w \in Agents : WF_vars(BroadcastSend(c, w))

\* The waiters under a fair event loop: one agent connects, answers or not,
\* and goes; calls of the four endpoints, broadcast or targeted, are sent and
\* poll the store.
NextTerminate ==
    \/ \E w \in {1} : Connect(w)
    \/ \E w \in {1} : Disconnect(w)
    \/ \E w \in {1} : HandlerExit(w)
    \/ \E w \in Agents, f \in sent, p \in {"result"} : HandleResult(w, f, p)
    \/ \E c \in Calls, e \in Endpoints, t \in {NoTarget, "browser_1"} : Dispatch(c, e, t)
    \/ \E c \in Calls, w \in Agents : BroadcastSend(c, w)
    \/ \E c \in Calls : GatherReturn(c)
    \/ \E c \in Calls : SendReturn(c)
    \/ \E c \in Calls : Poll(c)
    \/ \E c \in Calls : Timeout(c)

SpecTerminate == Init /\ [][NextTerminate]_vars /\ FairWait

\* no send of call c has raised: every send gather ran was made, and the
\* targeted send wrote its frame
SendsCompleted(c) ==
    /\ ~call[c].failed
    /\ call[c].tws # 0 => Frame(call[c].tws, call[c].id, ByCall(c)) \in sent

\* the wait loop of call c has made no more passes than its range allows
WithinPolls(c) ==
    call[c].polls <= (IF call[c].endpoint \in {"navigate", "launch"} THEN 30 ELSE 50)

\* every call that has been made ends
CallsEnd == \A c \in Calls : (call[c].pc # "idle") ~> (call[c].pc = "done")

\* C32: every dispatch-and-wait call terminates: once made it ends, its wait
\* loop makes at most 30 passes (navigate, launch-activity) or 50 passes
\* (screenshot, content), and when its sends completed it ends with a result,
\* with 503 or with 504, whatever the agents and the other calls do.
C32_CallTerminates ==
    /\ [](\A c \in Calls :
            /\ WithinPolls(c)
            /\ (call[c].pc = "done" /\ SendsCompleted(c)) =>
                   call[c].outcome \in {"result", "503", "504"})
    /\ CallsEnd

(* ------------------------ targets by id (C33) -------------------------- *)
\* Names that look like ids: agents connect and declare names, among them
\* the id of another connection, while calls are dispatched to ids.
NextTarget ==
    \/ \E w \in Agents : Connect(w)
    \/ \E w \in Agents, n \in {"roomA", "browser_2"} : HandleHello(w, n)
    \/ \E c \in Calls, e \in {"navigate", "screenshot"}, t \in {"browser_1", "browser_2"} :
          Dispatch(c, e, t)
    \/ \E c \in Calls : SendReturn(c)

SpecTarget == Init /\ [][NextTarget]_vars

\* C33: a targeted dispatch whose target is the id of a connection registered
\* at the dispatch is sent to a connection that has that id, whatever names
\* the other connections have declared.
C33_TargetByIdReachesId ==
    \A c \in Calls :
        (/\ call[c].tws # 0
         /\ \E i \in 1..Len(browser_clients) :
               /\ browser_clients[i].ws \in call[c].recips
               /\ browser_clients[i].id = call[c].target) =>
            /\ Frame(call[c].tws, call[c].id, ByCall(c)) \in sent
            /\ EntryOf(browser_clients, call[c].tws).id = call[c].target

\* C34: when the target connection of a targeted dispatch is unregistered by
\* its handler while the frame is being sent, send_to_browser still returns
\* a boolean: a targeted call whose frame was written never raises.
C34_UnregisterDuringSend ==
    \A c \in Calls :
        (/\ call[c].tws # 0
         /\ Frame(call[c].tws, call[c].id, ByCall(c)) \in sent) =>
            call[c].ret \in {"none", "True", "False"}

\* C35: a connection registering or unregistering while the periodic loop is
\* suspended in the middle of a cycle's sends does not end the loop: a loop
\* ends only by being cancelled, so that the task the scheduler holds is
\* always one that sleeps or sends.
C35_LoopSurvivesRegistryChange ==
    /\ \A t \in 1..Len(tasks) : tasks[t].pc \in {"sleep", "sending", "cancelled"}
    /\ IsSet(periodic_screenshot_task) => Active(tasks[periodic_screenshot_task])

(* --------------------- reading the settings (C36) ---------------------- *)
\* GET /screenshots/settings: the route reads the two globals of the
\* scheduler and changes nothing
GetScreenshotSettings ==
    [enabled |-> IsSet(periodic_screenshot_task), interval |-> SCREENSHOT_INTERVAL]

\* C36: get_screenshot_settings reports enabled = true exactly when a
\* periodic loop is alive and will run further cycles, and the interval it
\* reports is the interval of that loop.
C36_SettingsReportLoop ==
    /\ GetScreenshotSettings.enabled <=> \E t \in 1..Len(tasks) : Active(tasks[t])
    /\ \A t \in 1..Len(tasks) :
          Active(tasks[t]) => tasks[t].interval = GetScreenshotSettings.interval

(* ---------------------- reading the history (C37) ---------------------- *)
\* the screenshots a connection saves while the gallery is viewed
MaxShown == 4

\* no client_id in the query
NoClient == "<None>"

\* get_screenshot_history(client_id): the history of that client alone when
\* it is given and known, else the whole dict; the lists are the stored ones
GetScreenshotHistory(client_id) ==
    IF client_id # NoClient /\ client_id \in DOMAIN screenshot_history
    THEN [k \in {client_id} |-> screenshot_history[k]]
    ELSE screenshot_history

\* "clients[0]", the first key of the dict: the first key ever inserted is
\* browser_1, the id given at an empty registry, and keys are never deleted
FirstClient(history) ==
    IF ClientId(1) \in DOMAIN history THEN ClientId(1)
    ELSE CHOOSE k \in DOMAIN history : TRUE

\* the records of h with a timestamp of t or earlier, newest first, records
\* of one timestamp in the order they have in h
RECURSIVE NewestFirst(_, _)
NewestFirst(h, t) ==
    IF t < 0 THEN <<>>
    ELSE SelectSeq(h, LAMBDA r : r.timestamp = t) \o NewestFirst(h, t - 1)

\* screenshots.sort(key=lambda x: x["timestamp"], reverse=True): a stable
\* sort, in place
SortByTimestamp(h) == NewestFirst(h, MaxClock)

\* GET /gallery/?client_id=...: the history is read, the client is chosen
\* (the one asked for, else the first one known) and its list of screenshots,
\* the stored list itself when the client is known, is sorted in place
ScreenshotGallery(client_id) ==
    LET history == GetScreenshotHistory(client_id)
        selected == IF client_id = NoClient /\ DOMAIN history # {}
                    THEN FirstClient(history) ELSE client_id
    IN  /\ screenshot_history' =
               IF selected \in DOMAIN history
               THEN [screenshot_history EXCEPT ![selected] = SortByTimestamp(@)]
               ELSE screenshot_history
        /\ UNCHANGED <<browser_clients, conn, command_results, call, now, uuid, sent,
                       answered, sched, nsaved, handled>>

\* The gallery: agents connect and report screenshots while the clock runs
\* and the gallery is viewed.
NextGallery ==
    \/ \E w \in Agents : Connect(w)
    \/ \E w \in Agents :
          /\ nsaved[w] < MaxShown
          /\ HandleMessage(w, Msg("object", "none", NoName, MsgId, "screenshot", "", "object"))
    \/ Tick
    \/ \E cid \in {NoClient, "browser_1", "browser_2", "nobody"} : ScreenshotGallery(cid)

SpecGallery == Init /\ [][NextGallery]_vars

\* C37: reading the screenshot history, as the gallery does, leaves the
\* stored history of every connection unchanged in content and in order: a
\* step that saves nothing and registers nobody does not change it, and the
\* records of a connection stay in arrival order, so that the eviction of
\* later saves removes the oldest.
C37_ReadLeavesHistory ==
    /\ [][UNCHANGED <<nsaved, browser_clients>> => UNCHANGED screenshot_history]_vars
    /\ [](\A w \in RegistrySockets(browser_clients) :
            \A i, j \in 1..Len(HistoryOf(w)) :
                i < j => HistoryOf(w)[i].k < HistoryOf(w)[j].k)

(* ------------------- histories and client ids (C38) -------------------- *)
\* Connections come, report screenshots and go, and others come after them.
NextReconnect ==
    \/ \E w \in Sockets : Connect(w)
    \/ \E w \in Sockets : Disconnect(w)
    \/ \E w \in Sockets : HandlerExit(w)
    \/ \E w \in Sockets :
          /\ nsaved[w] < MaxShown
          /\ HandleMessage(w, Msg("object", "none", NoName, MsgId, "screenshot", "", "object"))

SpecReconnect == Init /\ [][NextReconnect]_vars

\* C38: registering a new connection does not remove or reset the screenshot
\* records of any other connection: the history of every connection that is
\* registered is the same after the registration as before.
C38_RegisterKeepsOthers ==
    [][Len(browser_clients') > Len(browser_clients) =>
        \A w \in RegistrySockets(browser_clients) :
            screenshot_history'[EntryOf(browser_clients, w).id] =
                screenshot_history[EntryOf(browser_clients, w).id]]_vars

\* C39: a result frame whose payload cannot be processed (a result that is
\* null or not an object, a screenshot that is not valid base64 or cannot be
\* written) is still recorded in the result store under its id and does not
\* close the connection: the connection stays registered and open for its
\* following frames, and no screenshot is recorded.
C39_BadPayloadStored ==
    [][(/\ Read
        /\ IsResultFrame(handled'.msg)
        /\ handled'.msg.id # UnhashableId
        /\ handled'.msg.body \in {"nonobject", "badshot"}) =>
        /\ handled'.msg.id \in DOMAIN command_results'
        /\ command_results'[handled'.msg.id].payload = handled'.msg.body
        /\ UNCHANGED <<browser_clients, conn, screenshot_history, nsaved>>]_vars

====
